---- MODULE Spec2Model ----
(***************************************************************************)
(* Model of the LangMortgage decision pipeline: the six workflow nodes     *)
(* (mock_nodes.py and nodes.py), the two graph wirings (sequential and     *)
(* conditional, mock_graph.py / graph.py), the property valuation client   *)
(* (a2a_property_client.py) and the error handlers (error_handling.py).    *)
(*                                                                         *)
(* Conventions                                                             *)
(*  - Money is in whole currency units.  employment_years is stored in     *)
(*    tenths of a year and debt_to_income_ratio in hundredths, so that     *)
(*    every threshold test of the code is an exact integer comparison      *)
(*    (x / y > 0.8 is written 5 * x > 4 * y for y > 0, and so on).         *)
(*  - A division whose divisor is zero raises ZeroDivisionError, a read of *)
(*    a missing dictionary key raises KeyError: the node returns a fault   *)
(*    instead of a state.                                                  *)
(*  - The record `state` is the dictionary that the nodes receive, mutate  *)
(*    and return.  An empty dictionary {} and an absent key are both the   *)
(*    value Empty (the code reads them through .get(..., {}) or `not d`).  *)
(*  - llm.invoke(prompt) in nodes.py only produces a reply that the node   *)
(*    ignores; it is not modelled.                                         *)
(*  - Message texts are represented by their fixed prefix.                 *)
(***************************************************************************)
EXTENDS Integers, Sequences, FiniteSets, TLC

VARIABLES application_data, state, pc, workflow, nodeset, env, client, call,
          valuation_response, fault, visited, previous_result, other_run

vars == <<application_data, state, pc, workflow, nodeset, env, client, call,
          valuation_response, fault, visited, previous_result, other_run>>

(***************************************************************************)
(* Bounds of the explored inputs.                                          *)
(***************************************************************************)
MaxSquareFootage == 2200

CreditScores == {250, 580, 640, 660, 720, 780, 900}
AnnualIncomes == {0, 45000, 95000}
EmploymentYears == {15, 50}
LoanAmounts == {0, 300000, 320000, 330000}
PropertyValues == {0, 300000, 400000}
DownPayments == {0, 500000}
DebtToIncomeRatios == {25, 45, 55}
SquareFootages == {0, MaxSquareFootage}
PropertyTypes == {"single_family", "condo"}

(***************************************************************************)
(* Dictionaries.                                                           *)
(***************************************************************************)
Empty == [empty |-> TRUE]

Has(d, key) == key \in DOMAIN d

Ratio(n, d) == [num |-> n, den |-> d]

Abs(x) == IF x < 0 THEN -x ELSE x

Returned(s) == [ok |-> TRUE, state |-> s]

Raised(kind) == [ok |-> FALSE, kind |-> kind]

(***************************************************************************)
(* state.py / main.py: the initial MortgageState of one run.               *)
(***************************************************************************)
InitialState(cs, ai, ey, la, pv, dp, dti, sf, pt) ==
    [ credit_score |-> cs,
      annual_income |-> ai,
      employment_years |-> ey,
      loan_amount |-> la,
      property_value |-> pv,
      down_payment |-> dp,
      debt_to_income_ratio |-> dti,
      square_footage |-> sf,
      property_type |-> pt,
      data_validation_result |-> Empty,
      credit_assessment_result |-> Empty,
      income_verification_result |-> Empty,
      property_valuation_result |-> Empty,
      risk_analysis_result |-> Empty,
      final_decision |-> "",
      decision_reason |-> "",
      confidence_score |-> 0,
      current_step |-> "initializing",
      errors |-> <<>>,
      warnings |-> <<>> ]

(***************************************************************************)
(* Node 1: data validation.                                                *)
(***************************************************************************)
ValidationIssues(s) ==
    (IF s.credit_score < 300 \/ s.credit_score > 850
        THEN <<"Invalid credit score">> ELSE <<>>)
    \o (IF s.annual_income <= 0 THEN <<"Invalid annual income">> ELSE <<>>)
    \o (IF s.loan_amount <= 0 THEN <<"Invalid loan amount">> ELSE <<>>)
    \o (IF s.down_payment > s.property_value
        THEN <<"Down payment exceeds property value">> ELSE <<>>)

ValidationWarnings(s) ==
    IF s.debt_to_income_ratio > 50 THEN <<"High debt-to-income ratio">> ELSE <<>>

\* mock_nodes.py: every rule that appends an issue also sets status FAIL.
mock_validation_status(s) ==
    IF ValidationIssues(s) # <<>> THEN "FAIL" ELSE "PASS"

\* nodes.py: status is fixed when the result is created, from two rules only.
validation_status(s) ==
    IF s.credit_score >= 300 /\ s.annual_income > 0 THEN "PASS" ELSE "FAIL"

mock_data_validation_node(s) ==
    Returned([s EXCEPT
        !.data_validation_result =
            [ status |-> mock_validation_status(s),
              issues |-> ValidationIssues(s),
              warnings |-> ValidationWarnings(s) ],
        !.current_step = "data_validation_completed"])

data_validation_node(s) ==
    Returned([s EXCEPT
        !.data_validation_result =
            [ status |-> validation_status(s),
              issues |-> ValidationIssues(s),
              warnings |-> ValidationWarnings(s) ],
        !.current_step = "data_validation_completed"])

(***************************************************************************)
(* Node 2: credit assessment (identical in mock_nodes.py and nodes.py).    *)
(***************************************************************************)
\* variant: the B threshold compared with > instead of >=
credit_grade_strict(score) ==
    IF score >= 750 THEN "A"
    ELSE IF score > 700 THEN "B"
    ELSE IF score >= 650 THEN "C"
    ELSE IF score >= 600 THEN "D"
    ELSE "F"

credit_grade(score) ==
    IF score >= 750 THEN "A"
    ELSE IF score >= 700 THEN "B"
    ELSE IF score >= 650 THEN "C"
    ELSE IF score >= 600 THEN "D"
    ELSE "F"

risk_level(score) ==
    IF score >= 750 THEN "LOW"
    ELSE IF score >= 700 THEN "LOW"
    ELSE IF score >= 650 THEN "MEDIUM"
    ELSE IF score >= 600 THEN "HIGH"
    ELSE "HIGH"

credit_employment_stability(years) ==
    IF years >= 20 THEN "STABLE"
    ELSE IF years >= 10 THEN "MODERATE"
    ELSE "UNSTABLE"

\* variant: an F grade is rejected by the credit stage itself
credit_assessment_node_reject(s) ==
    Returned([s EXCEPT
        !.credit_assessment_result =
            [ credit_grade |-> credit_grade(s.credit_score),
              risk_level |-> risk_level(s.credit_score),
              credit_score |-> s.credit_score,
              employment_stability |-> credit_employment_stability(s.employment_years) ],
        !.final_decision = IF credit_grade(s.credit_score) = "F" THEN "REJECTED" ELSE @,
        !.current_step = "credit_assessment_completed"])

credit_assessment_node(s) ==
    Returned([s EXCEPT
        !.credit_assessment_result =
            [ credit_grade |-> credit_grade(s.credit_score),
              risk_level |-> risk_level(s.credit_score),
              credit_score |-> s.credit_score,
              employment_stability |-> credit_employment_stability(s.employment_years) ],
        !.current_step = "credit_assessment_completed"])

(***************************************************************************)
(* Node 3: income verification (identical in mock_nodes.py and nodes.py).  *)
(* income_ratio = (loan_amount * 0.005) / (annual_income / 12)             *)
(*              = 3 * loan_amount / (50 * annual_income).                  *)
(***************************************************************************)
IncomeRatio(s) == Ratio(3 * s.loan_amount, 50 * s.annual_income)

\* income_ratio > 0.28, for a non-zero annual income of either sign
IncomeRatioExceeds(s) ==
    IF s.annual_income > 0
        THEN 3 * s.loan_amount > 14 * s.annual_income
        ELSE 3 * s.loan_amount < 14 * s.annual_income

\* variant: the stage replaces the annual income by the monthly income
income_verification_node_in_place(s) ==
    IF s.annual_income = 0
    THEN Raised("ZeroDivisionError")
    ELSE Returned([s EXCEPT
        !.annual_income = s.annual_income \div 12,
        !.income_verification_result =
            [ monthly_income |-> Ratio(s.annual_income, 12),
              estimated_monthly_payment |-> Ratio(s.loan_amount, 200),
              payment_to_income_ratio |-> IncomeRatio(s),
              income_adequacy |->
                  IF IncomeRatioExceeds(s) THEN "INSUFFICIENT" ELSE "SUFFICIENT",
              employment_stability |->
                  IF s.employment_years >= 20 THEN "STABLE" ELSE "UNSTABLE",
              concerns |->
                  (IF IncomeRatioExceeds(s)
                      THEN <<"Payment-to-income ratio exceeds 28%">> ELSE <<>>)
                  \o (IF s.employment_years < 20
                      THEN <<"Employment history less than 2 years">> ELSE <<>>) ],
        !.current_step = "income_verification_completed"])

income_verification_node(s) ==
    IF s.annual_income = 0
    THEN Raised("ZeroDivisionError")
    ELSE Returned([s EXCEPT
        !.income_verification_result =
            [ monthly_income |-> Ratio(s.annual_income, 12),
              estimated_monthly_payment |-> Ratio(s.loan_amount, 200),
              payment_to_income_ratio |-> IncomeRatio(s),
              income_adequacy |->
                  IF IncomeRatioExceeds(s) THEN "INSUFFICIENT" ELSE "SUFFICIENT",
              employment_stability |->
                  IF s.employment_years >= 20 THEN "STABLE" ELSE "UNSTABLE",
              concerns |->
                  (IF IncomeRatioExceeds(s)
                      THEN <<"Payment-to-income ratio exceeds 28%">> ELSE <<>>)
                  \o (IF s.employment_years < 20
                      THEN <<"Employment history less than 2 years">> ELSE <<>>) ],
        !.current_step = "income_verification_completed"])

(***************************************************************************)
(* a2a_property_client.py: MortgagePropertyValuationClient.                *)
(* The environment of a run: platform detection, whether an agent URL is   *)
(* configured, whether langgraph_sdk can be imported, whether get_client   *)
(* succeeds.                                                               *)
(***************************************************************************)
Environments ==
    [ is_platform : BOOLEAN, agent_url : BOOLEAN,
      sdk_available : BOOLEAN, sdk_connects : BOOLEAN ]

NoClient == Empty

\* __init__(use_mock, property_agent_url); use_mock is "None", "True" or
\* "False", url_arg tells whether a URL was passed as parameter.
MortgagePropertyValuationClient(e, use_mock, url_arg) ==
    LET url0 == url_arg \/ e.agent_url
        url == IF use_mock = "None" /\ e.is_platform /\ ~url0 THEN TRUE ELSE url0
        mock == IF use_mock = "None"
                    THEN IF e.is_platform /\ ~url0
                            THEN FALSE
                            ELSE ~(e.is_platform /\ url0)
                    ELSE use_mock = "True"
        live == ~mock /\ url
    IN  [ is_platform |-> e.is_platform,
          property_agent_url |-> url,
          use_mock |-> mock,
          platform_mode |-> live,
          client |-> live /\ e.sdk_available /\ e.sdk_connects,
          sdk_available |-> e.sdk_available ]

\* property_info built by the property valuation node from the state
PropertyInfo(s) ==
    [ property_type |-> s.property_type, square_footage |-> s.square_footage ]

\* variant: a townhouse valued with the condo factor
TypeFactor_townhouse(property_type) ==
    IF property_type = "condo" THEN 90
    ELSE IF property_type = "townhouse" THEN 90
    ELSE IF property_type = "multi_family" THEN 110
    ELSE 100

TypeFactor(property_type) ==
    IF property_type = "condo" THEN 90
    ELSE IF property_type = "townhouse" THEN 95
    ELSE IF property_type = "multi_family" THEN 110
    ELSE 100

DefaultBaseValue == 400000

PricePerSquareFoot == 200

\* base_value of _mock_property_valuation, after the property type factor
MockBaseValue(info) ==
    ((IF info.square_footage # 0
         THEN info.square_footage * PricePerSquareFoot
         ELSE DefaultBaseValue) * TypeFactor(info.property_type)) \div 100

_mock_property_valuation(info) ==
    [ status |-> "SUCCESS",
      valuation_data |->
        [ property_valuation |->
            [ estimated_value |-> MockBaseValue(info),
              confidence_level |-> "MEDIUM",
              confidence_score |-> 75,
              valuation_range |->
                [ min_value |-> (MockBaseValue(info) * 90) \div 100,
                  max_value |-> (MockBaseValue(info) * 110) \div 100 ] ],
          valuation_flags |->
            [ high_confidence |-> FALSE,
              market_stable |-> TRUE,
              comparable_data_sufficient |-> TRUE ] ] ]

\* the SUCCESS record built around whatever dictionary the remote side sent
RemoteSuccess(valuation_result) ==
    [ status |-> "SUCCESS",
      valuation_data |-> [ property_valuation |-> valuation_result ] ]

AllAssistantsFailed ==
    [ status |-> "ERROR", error_message |-> "All assistant ID attempts failed" ]

AllEndpointsFailed ==
    [ status |-> "ERROR", error_message |-> "All HTTP endpoint attempts failed" ]

\* the candidate lists of request_property_valuation
NumAssistantIds == 8

NumEndpoints == 4

NumPayloads == 3

\* dictionaries the remote side may send as valuation result
RequiredFields ==
    {"estimated_value", "confidence_level", "confidence_score", "valuation_range"}

RemoteRecords ==
    { [ estimated_value |-> 450000, confidence_level |-> "HIGH",
        confidence_score |-> 90,
        valuation_range |-> [ min_value |-> 430000, max_value |-> 470000 ] ],
      [ estimated_value |-> 0, confidence_level |-> "LOW",
        confidence_score |-> 10,
        valuation_range |-> [ min_value |-> 0, max_value |-> 0 ] ],
      [ estimated_value |-> 450000, confidence_level |-> "HIGH" ],
      Empty }

\* variant: the threshold itself counts as exceeding it
RatioGreater_inclusive(r, n, d) ==
    IF r.den > 0 THEN d * r.num >= n * r.den ELSE d * r.num <= n * r.den

\* x / y > n / d for y # 0
RatioGreater(r, n, d) ==
    IF r.den > 0 THEN d * r.num > n * r.den ELSE d * r.num < n * r.den

\* variant: a medium risk always asks for mortgage insurance
_get_ltv_recommendation_pmi(level, ltv_ratio) ==
    IF level = "HIGH"
        THEN IF RatioGreater(ltv_ratio, 95, 100) THEN "REJECT"
             ELSE "REQUIRE_ADDITIONAL_REVIEW"
    ELSE IF level = "MEDIUM" THEN "REQUIRE_PMI"
    ELSE "APPROVE"

_get_ltv_recommendation(level, ltv_ratio) ==
    IF level = "HIGH"
        THEN IF RatioGreater(ltv_ratio, 95, 100) THEN "REJECT"
             ELSE "REQUIRE_ADDITIONAL_REVIEW"
    ELSE IF level = "MEDIUM"
        THEN IF RatioGreater(ltv_ratio, 80, 100) THEN "REQUIRE_PMI"
             ELSE "APPROVE_WITH_CONDITIONS"
    ELSE "APPROVE"

\* variant: a low confidence does not raise a LOW risk level
LtvRiskLevel_no_upgrade(ltv_ratio, confidence_level) ==
    IF RatioGreater(ltv_ratio, 95, 100) THEN "HIGH"
    ELSE IF RatioGreater(ltv_ratio, 80, 100)
        THEN IF confidence_level = "HIGH" THEN "MEDIUM" ELSE "HIGH"
    ELSE IF RatioGreater(ltv_ratio, 70, 100) /\ confidence_level = "LOW"
        THEN "MEDIUM"
    ELSE "LOW"

LtvRiskLevel(ltv_ratio, confidence_level) ==
    LET first == IF RatioGreater(ltv_ratio, 95, 100) THEN "HIGH"
                 ELSE IF RatioGreater(ltv_ratio, 80, 100)
                    THEN IF confidence_level = "HIGH" THEN "MEDIUM" ELSE "HIGH"
                 ELSE IF RatioGreater(ltv_ratio, 70, 100) /\ confidence_level = "LOW"
                    THEN "MEDIUM"
                 ELSE "LOW"
    IN  IF confidence_level = "LOW" /\ first = "LOW" THEN "MEDIUM" ELSE first

LtvRiskFactors(ltv_ratio, confidence_level) ==
    (IF RatioGreater(ltv_ratio, 95, 100) THEN <<"Very high LTV (>95%)">>
     ELSE IF RatioGreater(ltv_ratio, 80, 100) THEN <<"High LTV (>80%)">>
     ELSE IF RatioGreater(ltv_ratio, 70, 100) /\ confidence_level = "LOW"
        THEN <<"Medium LTV with low confidence valuation">>
     ELSE <<>>)
    \o (IF confidence_level = "LOW"
        THEN <<"Low confidence property valuation">> ELSE <<>>)

\* variant: a low confidence always yields a medium risk
_assess_ltv_risk_low_is_medium(ltv_ratio, confidence_level) ==
    [ risk_level |-> IF confidence_level = "LOW" THEN "MEDIUM"
                     ELSE LtvRiskLevel(ltv_ratio, confidence_level),
      risk_factors |-> LtvRiskFactors(ltv_ratio, confidence_level),
      requires_pmi |-> RatioGreater(ltv_ratio, 80, 100),
      recommended_action |->
        _get_ltv_recommendation(LtvRiskLevel(ltv_ratio, confidence_level), ltv_ratio) ]

_assess_ltv_risk(ltv_ratio, confidence_level) ==
    [ risk_level |-> LtvRiskLevel(ltv_ratio, confidence_level),
      risk_factors |-> LtvRiskFactors(ltv_ratio, confidence_level),
      requires_pmi |-> RatioGreater(ltv_ratio, 80, 100),
      recommended_action |->
        _get_ltv_recommendation(LtvRiskLevel(ltv_ratio, confidence_level), ltv_ratio) ]

\* the first read or division of extract_loan_to_value_info that fails, or "none"
LtvFault(valuation_data) ==
    IF ~Has(valuation_data, "estimated_value") THEN "KeyError"
    ELSE IF valuation_data.estimated_value = 0 THEN "ZeroDivisionError"
    ELSE IF ~Has(valuation_data, "confidence_level")
            \/ ~Has(valuation_data, "confidence_score")
            \/ ~Has(valuation_data, "valuation_range") THEN "KeyError"
    ELSE "none"

\* extract_loan_to_value_info when no read fails
extract_loan_to_value_info(response, loan_amount) ==
    IF response.status # "SUCCESS"
    THEN [ ltv_available |-> FALSE, error |-> "Property valuation failed" ]
    ELSE LET valuation_data == response.valuation_data.property_valuation
             ltv_ratio == Ratio(loan_amount, valuation_data.estimated_value)
         IN  [ ltv_available |-> TRUE,
               estimated_property_value |-> valuation_data.estimated_value,
               loan_amount |-> loan_amount,
               ltv_ratio |-> ltv_ratio,
               confidence_level |-> valuation_data.confidence_level,
               confidence_score |-> valuation_data.confidence_score,
               valuation_range |-> valuation_data.valuation_range,
               ltv_risk_assessment |->
                    _assess_ltv_risk(ltv_ratio, valuation_data.confidence_level) ]

(***************************************************************************)
(* Node 4: property valuation (mock_nodes.py), from the point where        *)
(* request_property_valuation has returned `response`.                     *)
(***************************************************************************)
\* variant: a variance of exactly 10% counts as significant
VarianceExceeds_inclusive(appraised, stated) ==
    stated > 0 /\ 10 * Abs(appraised - stated) >= stated

\* abs(appraised - stated) / stated > 0.10, for stated # 0
VarianceExceeds(appraised, stated) ==
    stated > 0 /\ 10 * Abs(appraised - stated) > stated

\* the first failing read or division of the SUCCESS branch, or "none"
ValuationFault(s, response) ==
    IF LtvFault(response.valuation_data.property_valuation) # "none"
        THEN LtvFault(response.valuation_data.property_valuation)
    ELSE IF ~Has(response.valuation_data, "valuation_flags") THEN "KeyError"
    ELSE IF s.property_value = 0 THEN "ZeroDivisionError"
    ELSE "none"

\* variant: the stated property value is kept after a successful valuation
mock_property_valuation_node_stated(s, response) ==
    IF response.status = "SUCCESS"
    THEN IF ValuationFault(s, response) # "none"
         THEN Raised(ValuationFault(s, response))
         ELSE LET valuation == response.valuation_data.property_valuation
                  appraised_value == valuation.estimated_value
              IN  Returned([s EXCEPT
                    !.property_valuation_result =
                        [ status |-> "SUCCESS",
                          appraised_value |-> appraised_value,
                          confidence_level |-> valuation.confidence_level,
                          confidence_score |-> valuation.confidence_score,
                          valuation_range |-> valuation.valuation_range,
                          ltv_analysis |->
                              extract_loan_to_value_info(response, s.loan_amount),
                          valuation_flags |-> response.valuation_data.valuation_flags ],
                    !.warnings =
                        IF VarianceExceeds(appraised_value, s.property_value)
                        THEN Append(@, "Significant variance between stated and appraised values")
                        ELSE @,
                    !.current_step = "property_valuation_completed"])
    ELSE Returned([s EXCEPT
            !.property_valuation_result =
                [ status |-> "ERROR",
                  error_message |-> response.error_message,
                  appraised_value |-> s.property_value,
                  confidence_level |-> "LOW",
                  ltv_analysis |-> [ ltv_available |-> FALSE ] ],
            !.errors = Append(@, "Property valuation failed"),
            !.current_step = "property_valuation_completed"])

mock_property_valuation_node(s, response) ==
    IF response.status = "SUCCESS"
    THEN IF ValuationFault(s, response) # "none"
         THEN Raised(ValuationFault(s, response))
         ELSE LET valuation == response.valuation_data.property_valuation
                  appraised_value == valuation.estimated_value
              IN  Returned([s EXCEPT
                    !.property_valuation_result =
                        [ status |-> "SUCCESS",
                          appraised_value |-> appraised_value,
                          confidence_level |-> valuation.confidence_level,
                          confidence_score |-> valuation.confidence_score,
                          valuation_range |-> valuation.valuation_range,
                          ltv_analysis |->
                              extract_loan_to_value_info(response, s.loan_amount),
                          valuation_flags |-> response.valuation_data.valuation_flags ],
                    !.warnings =
                        IF VarianceExceeds(appraised_value, s.property_value)
                        THEN Append(@, "Significant variance between stated and appraised values")
                        ELSE @,
                    !.property_value = appraised_value,
                    !.current_step = "property_valuation_completed"])
    ELSE Returned([s EXCEPT
            !.property_valuation_result =
                [ status |-> "ERROR",
                  error_message |-> response.error_message,
                  appraised_value |-> s.property_value,
                  confidence_level |-> "LOW",
                  ltv_analysis |-> [ ltv_available |-> FALSE ] ],
            !.errors = Append(@, "Property valuation failed"),
            !.current_step = "property_valuation_completed"])

(***************************************************************************)
(* Node 5: risk analysis (identical in mock_nodes.py and nodes.py).        *)
(***************************************************************************)
RiskFactors(s) ==
    (IF RatioGreater(Ratio(s.loan_amount, s.property_value), 80, 100)
        THEN <<"High loan-to-value ratio (>80%)">> ELSE <<>>)
    \o (IF s.debt_to_income_ratio > 43
        THEN <<"High debt-to-income ratio (>43%)">> ELSE <<>>)
    \o (IF s.credit_score < 620 THEN <<"Low credit score (<620)">> ELSE <<>>)

\* variant: two factors still count as a medium risk
overall_risk_two_medium(risk_factors) ==
    IF Len(risk_factors) = 0 THEN "LOW"
    ELSE IF Len(risk_factors) <= 2 THEN "MEDIUM"
    ELSE "HIGH"

overall_risk(risk_factors) ==
    IF Len(risk_factors) = 0 THEN "LOW"
    ELSE IF Len(risk_factors) <= 1 THEN "MEDIUM"
    ELSE "HIGH"

\* variant: mortgage insurance is required from a ratio of 0.8 on
risk_analysis_node_inclusive_pmi(s) ==
    IF s.property_value = 0
    THEN Raised("ZeroDivisionError")
    ELSE Returned([s EXCEPT
        !.risk_analysis_result =
            [ loan_to_value_ratio |-> Ratio(s.loan_amount, s.property_value),
              down_payment_percent |-> Ratio(s.down_payment, s.property_value),
              overall_risk |-> overall_risk(RiskFactors(s)),
              risk_factors |-> RiskFactors(s),
              requires_pmi |->
                  RatioGreater_inclusive(Ratio(s.loan_amount, s.property_value), 80, 100) ],
        !.current_step = "risk_analysis_completed"])

risk_analysis_node(s) ==
    IF s.property_value = 0
    THEN Raised("ZeroDivisionError")
    ELSE Returned([s EXCEPT
        !.risk_analysis_result =
            [ loan_to_value_ratio |-> Ratio(s.loan_amount, s.property_value),
              down_payment_percent |-> Ratio(s.down_payment, s.property_value),
              overall_risk |-> overall_risk(RiskFactors(s)),
              risk_factors |-> RiskFactors(s),
              requires_pmi |->
                  RatioGreater(Ratio(s.loan_amount, s.property_value), 80, 100) ],
        !.current_step = "risk_analysis_completed"])

(***************************************************************************)
(* Node 6: final decision.                                                 *)
(***************************************************************************)
\* both versions first read one key of each of these four results
DecisionInputsPresent(s) ==
    /\ Has(s.data_validation_result, "status")
    /\ Has(s.credit_assessment_result, "credit_grade")
    /\ Has(s.income_verification_result, "income_adequacy")
    /\ Has(s.risk_analysis_result, "overall_risk")

ValuationStatus(s) ==
    IF Has(s.property_valuation_result, "status")
    THEN s.property_valuation_result.status ELSE "None"

Decide(s, decision, reason, confidence) ==
    [s EXCEPT !.final_decision = decision,
              !.decision_reason = reason,
              !.confidence_score = confidence,
              !.current_step = "final_decision_completed"]

\* variant: an approval only at low risk
ApprovalRule_low_risk(grade, income_adequate, risk) ==
    grade \in {"A", "B"} /\ income_adequate /\ risk = "LOW"

\* the condition of the APPROVED branch (the same in both versions)
ApprovalRule(grade, income_adequate, risk) ==
    grade \in {"A", "B"} /\ income_adequate /\ risk \in {"LOW", "MEDIUM"}

\* variant: a D grade alone does not reject
RejectionRule_grade_f(grade, income_adequate, risk) ==
    grade = "F" \/ ~income_adequate \/ risk = "HIGH"

\* the condition of the second REJECTED branch (the same in both versions)
RejectionRule(grade, income_adequate, risk) ==
    grade \in {"D", "F"} \/ ~income_adequate \/ risk = "HIGH"

\* confidence of an APPROVED decision in mock_nodes.py
ApprovedConfidence(s) ==
    LET base == IF s.risk_analysis_result.overall_risk = "LOW" THEN 85 ELSE 75
    IN  IF ValuationStatus(s) = "SUCCESS"
        THEN IF s.property_valuation_result.confidence_level = "HIGH" THEN base + 5
             ELSE IF s.property_valuation_result.confidence_level = "LOW" THEN base - 10
             ELSE base
        ELSE base

\* variant: an approval at medium risk reported with the fourth label that
\* test_a2a_integration.py uses for its own recommendation
mock_final_decision_node_conditions(s) ==
    IF ~DecisionInputsPresent(s) THEN Raised("KeyError")
    ELSE
    LET data_valid == s.data_validation_result.status = "PASS"
        grade == s.credit_assessment_result.credit_grade
        income_adequate == s.income_verification_result.income_adequacy = "SUFFICIENT"
        risk == s.risk_analysis_result.overall_risk
    IN  IF ~data_valid
            THEN Returned(Decide(s, "REJECTED", "Failed data validation", 95))
        ELSE IF ValuationStatus(s) = "ERROR"
            THEN Returned(Decide(s, "REJECTED", "Property valuation failed", 90))
        ELSE IF ApprovalRule(grade, income_adequate, risk)
            THEN Returned(Decide(s, IF risk = "LOW" THEN "APPROVED"
                                    ELSE "APPROVED_WITH_CONDITIONS",
                                 "Strong application", ApprovedConfidence(s)))
        ELSE IF RejectionRule(grade, income_adequate, risk)
            THEN Returned(Decide(s, "REJECTED", "High risk factors", 80))
        ELSE Returned(Decide(s, "PENDING_REVIEW", "Borderline case requiring manual review", 60))

mock_final_decision_node(s) ==
    IF ~DecisionInputsPresent(s) THEN Raised("KeyError")
    ELSE
    LET data_valid == s.data_validation_result.status = "PASS"
        grade == s.credit_assessment_result.credit_grade
        income_adequate == s.income_verification_result.income_adequacy = "SUFFICIENT"
        risk == s.risk_analysis_result.overall_risk
    IN  IF ~data_valid
            THEN Returned(Decide(s, "REJECTED", "Failed data validation", 95))
        ELSE IF ValuationStatus(s) = "ERROR"
            THEN Returned(Decide(s, "REJECTED", "Property valuation failed", 90))
        ELSE IF ApprovalRule(grade, income_adequate, risk)
            THEN Returned(Decide(s, "APPROVED", "Strong application", ApprovedConfidence(s)))
        ELSE IF RejectionRule(grade, income_adequate, risk)
            THEN Returned(Decide(s, "REJECTED", "High risk factors", 80))
        ELSE Returned(Decide(s, "PENDING_REVIEW", "Borderline case requiring manual review", 60))

\* variant: a borderline case is rejected instead of sent to review
final_decision_node_no_review(s) ==
    IF ~DecisionInputsPresent(s) THEN Raised("KeyError")
    ELSE
    LET data_valid == s.data_validation_result.status = "PASS"
        grade == s.credit_assessment_result.credit_grade
        income_adequate == s.income_verification_result.income_adequacy = "SUFFICIENT"
        risk == s.risk_analysis_result.overall_risk
    IN  IF ~data_valid
            THEN Returned(Decide(s, "REJECTED", "Failed data validation", 95))
        ELSE IF ApprovalRule(grade, income_adequate, risk)
            THEN Returned(Decide(s, "APPROVED", "Strong application",
                                 IF risk = "LOW" THEN 85 ELSE 75))
        ELSE IF RejectionRule(grade, income_adequate, risk)
            THEN Returned(Decide(s, "REJECTED", "High risk factors", 80))
        ELSE Returned(Decide(s, "REJECTED", "High risk factors", 80))

final_decision_node(s) ==
    IF ~DecisionInputsPresent(s) THEN Raised("KeyError")
    ELSE
    LET data_valid == s.data_validation_result.status = "PASS"
        grade == s.credit_assessment_result.credit_grade
        income_adequate == s.income_verification_result.income_adequacy = "SUFFICIENT"
        risk == s.risk_analysis_result.overall_risk
    IN  IF ~data_valid
            THEN Returned(Decide(s, "REJECTED", "Failed data validation", 95))
        ELSE IF ApprovalRule(grade, income_adequate, risk)
            THEN Returned(Decide(s, "APPROVED", "Strong application",
                                 IF risk = "LOW" THEN 85 ELSE 75))
        ELSE IF RejectionRule(grade, income_adequate, risk)
            THEN Returned(Decide(s, "REJECTED", "High risk factors", 80))
        ELSE Returned(Decide(s, "PENDING_REVIEW", "Borderline case requiring manual review", 60))

(***************************************************************************)
(* error_handling.py                                                       *)
(***************************************************************************)
CriticalErrorCodes == {"INVALID_APPLICATION", "PROPERTY_VALUATION_FAILED", "SYSTEM_ERROR"}

\* an error is [class |-> "Exception"] or
\* [class |-> "MortgageApprovalError", error_code |-> code]
ErrorValues ==
    { [class |-> "Exception", error_code |-> "none"] }
    \cup [ class : {"MortgageApprovalError"},
           error_code : CriticalErrorCodes \cup {"VALIDATION_WARNING"} ]

IsCritical(error) ==
    error.class = "MortgageApprovalError" /\ error.error_code \in CriticalErrorCodes

handle_node_error(s, node_name, error) ==
    LET s1 == [s EXCEPT !.errors = Append(@, "Error in " \o node_name),
                        !.current_step = node_name \o "_failed"]
    IN  IF IsCritical(error)
        THEN [s1 EXCEPT !.final_decision = "REJECTED",
                        !.decision_reason = "Application rejected due to system error",
                        !.confidence_score = 0,
                        !.current_step = "final_decision_completed"]
        ELSE s1

NotCompleted ==
    [ status |-> "NOT_COMPLETED", error |-> "Workflow terminated due to system error" ]

\* variant: every result is replaced, completed or not
FillResult_reset(result) == NotCompleted

FillResult(result) == IF result = Empty THEN NotCompleted ELSE result

\* variant: only the results that state.py declares are filled
create_safe_mortgage_decision_declared(s, error_context) ==
    [s EXCEPT !.final_decision = "REJECTED",
              !.decision_reason =
                    "Application rejected due to system error: " \o error_context,
              !.confidence_score = 0,
              !.current_step = "final_decision_completed",
              !.data_validation_result = FillResult(@),
              !.credit_assessment_result = FillResult(@),
              !.income_verification_result = FillResult(@),
              !.risk_analysis_result = FillResult(@)]

create_safe_mortgage_decision(s, error_context) ==
    [s EXCEPT !.final_decision = "REJECTED",
              !.decision_reason =
                    "Application rejected due to system error: " \o error_context,
              !.confidence_score = 0,
              !.current_step = "final_decision_completed",
              !.data_validation_result = FillResult(@),
              !.credit_assessment_result = FillResult(@),
              !.income_verification_result = FillResult(@),
              !.property_valuation_result = FillResult(@),
              !.risk_analysis_result = FillResult(@)]

(***************************************************************************)
(* The run: one application record threaded through the graph.             *)
(*   pc        the node that runs next, "sdk_loop" / "http_loop" while the *)
(*             valuation client walks its candidate list, "END" when the   *)
(*             graph reached END, "raised" when a node raised (the         *)
(*             exception leaves workflow.invoke and                        *)
(*             run_mortgage_validation), "handled" / "safe" after the      *)
(*             error handlers were applied to the record of such a run     *)
(*   application_data  the record handed to the run, as received           *)
(*   call      the loop variables of request_property_valuation            *)
(*   visited   the nodes entered so far, in order                          *)
(*   previous_result  the record returned by an earlier run on the same    *)
(*             application, Empty if there was none                        *)
(*   other_run  the variables of a second run of the same process that is  *)
(*             suspended between two stages, Empty if there is none        *)
(***************************************************************************)
Workflows == {"sequential", "conditional"}

\* "mock": mock_graph.py with mock_nodes.py; "llm": graph.py with nodes.py
Nodesets == {"mock", "llm"}

\* the environments explored: local, platform with SDK, platform whose SDK
\* connection fails, platform without URL and without SDK
RunEnvironments ==
    { [is_platform |-> FALSE, agent_url |-> TRUE, sdk_available |-> TRUE, sdk_connects |-> TRUE],
      [is_platform |-> TRUE, agent_url |-> TRUE, sdk_available |-> TRUE, sdk_connects |-> TRUE],
      [is_platform |-> TRUE, agent_url |-> TRUE, sdk_available |-> TRUE, sdk_connects |-> FALSE],
      [is_platform |-> TRUE, agent_url |-> FALSE, sdk_available |-> FALSE, sdk_connects |-> FALSE] }

NoCall == [path |-> "none", index |-> 0, payload |-> 0, tried |-> <<>>, posts |-> 0]

NoFault == [node |-> "none", kind |-> "none"]

\* the strong application of test_agent.py, without property description
Reference ==
    InitialState(780, 95000, 50, 300000, 400000, 0, 25, 0, "single_family")

\* fields that do not enter the decision rules of a run with mock valuation
SideFields ==
    {"employment_years", "property_value", "down_payment", "square_footage", "property_type"}

\* test_agent.py: the three scenarios of test_mortgage_scenarios
StrongApplication ==
    InitialState(780, 95000, 50, 300000, 400000, 100000, 25, 0, "single_family")

WeakApplication ==
    InitialState(580, 45000, 5, 250000, 280000, 30000, 45, 0, "single_family")

BorderlineApplication ==
    InitialState(660, 65000, 18, 280000, 320000, 40000, 38, 0, "single_family")

Applications ==
    { a \in { InitialState(cs, ai, ey, la, pv, dp, dti, sf, pt) :
                cs \in CreditScores, ai \in AnnualIncomes, ey \in EmploymentYears,
                la \in LoanAmounts, pv \in PropertyValues, dp \in DownPayments,
                dti \in DebtToIncomeRatios, sf \in SquareFootages, pt \in PropertyTypes } :
        Cardinality({ f \in SideFields : a[f] # Reference[f] }) <= 1 }
    \cup {StrongApplication, WeakApplication, BorderlineApplication}

Init ==
    /\ application_data \in Applications
    /\ state = application_data
    /\ pc = "data_validation"
    /\ workflow \in Workflows
    /\ nodeset \in Nodesets
    /\ env \in RunEnvironments
    /\ client = NoClient
    /\ call = NoCall
    /\ valuation_response = Empty
    /\ fault = NoFault
    /\ visited = <<>>
    /\ previous_result = Empty
    /\ other_run = Empty

\* graph.py / mock_graph.py: the edge taken after `node` returned state s
should_continue_after_validation(s) ==
    IF s.data_validation_result.status = "FAIL" THEN "decision" ELSE "credit_assessment"

should_continue_after_credit(s) ==
    IF s.credit_assessment_result.credit_grade = "F" THEN "decision" ELSE "income_verification"

should_continue_after_property_valuation(s) ==
    IF s.property_valuation_result.status = "ERROR" THEN "decision" ELSE "risk_analysis"

SequentialEdge(node) ==
    CASE node = "data_validation" -> "credit_assessment"
      [] node = "credit_assessment" -> "income_verification"
      [] node = "income_verification" -> "property_valuation"
      [] node = "property_valuation" -> "risk_analysis"
      [] node = "risk_analysis" -> "decision"
      [] node = "decision" -> "END"

ConditionalEdge(node, s) ==
    CASE node = "data_validation" -> should_continue_after_validation(s)
      [] node = "credit_assessment" -> should_continue_after_credit(s)
      [] node = "income_verification" -> "property_valuation"
      [] node = "property_valuation" -> should_continue_after_property_valuation(s)
      [] node = "risk_analysis" -> "decision"
      [] node = "decision" -> "END"

Edge(wf, node, s) ==
    IF wf = "sequential" THEN SequentialEdge(node) ELSE ConditionalEdge(node, s)

\* the outcome of a node: the graph follows the edge, or the exception escapes
Finish(node, result) ==
    IF result.ok
    THEN /\ state' = result.state
         /\ pc' = Edge(workflow, node, result.state)
         /\ fault' = fault
    ELSE /\ state' = state
         /\ pc' = "raised"
         /\ fault' = [node |-> node, kind |-> result.kind]

Enter(node) ==
    /\ pc = node
    /\ visited' = Append(visited, node)

DataValidation ==
    /\ Enter("data_validation")
    /\ Finish("data_validation",
              IF nodeset = "mock" THEN mock_data_validation_node(state)
                                  ELSE data_validation_node(state))
    /\ UNCHANGED <<application_data, previous_result, other_run, workflow, nodeset, env, client, call, valuation_response>>

CreditAssessment ==
    /\ Enter("credit_assessment")
    /\ Finish("credit_assessment", credit_assessment_node(state))
    /\ UNCHANGED <<application_data, previous_result, other_run, workflow, nodeset, env, client, call, valuation_response>>

IncomeVerification ==
    /\ Enter("income_verification")
    /\ Finish("income_verification", income_verification_node(state))
    /\ UNCHANGED <<application_data, previous_result, other_run, workflow, nodeset, env, client, call, valuation_response>>

RiskAnalysis ==
    /\ Enter("risk_analysis")
    /\ Finish("risk_analysis", risk_analysis_node(state))
    /\ UNCHANGED <<application_data, previous_result, other_run, workflow, nodeset, env, client, call, valuation_response>>

FinalDecision ==
    /\ Enter("decision")
    /\ Finish("decision",
              IF nodeset = "mock" THEN mock_final_decision_node(state)
                                  ELSE final_decision_node(state))
    /\ UNCHANGED <<application_data, previous_result, other_run, workflow, nodeset, env, client, call, valuation_response>>

\* request_property_valuation returns `response`: the loop variables die
\* and the property valuation node continues with the response
ReturnValuation(response) ==
    /\ valuation_response' = response
    /\ call' = NoCall
    /\ Finish("property_valuation", mock_property_valuation_node(state, response))

\* mock_property_valuation_node up to the first remote attempt: the client
\* is constructed with default arguments and request_property_valuation
\* picks the mock estimator, the SDK loop or the HTTP loop
PropertyValuation ==
    /\ Enter("property_valuation")
    /\ client' = MortgagePropertyValuationClient(env, "None", FALSE)
    /\ IF client'.use_mock \/ ~client'.property_agent_url
       THEN ReturnValuation(_mock_property_valuation(PropertyInfo(state)))
       ELSE /\ call' = [ path |-> IF client'.client /\ client'.sdk_available
                                     THEN "sdk" ELSE "http",
                         index |-> 1, payload |-> 1, tried |-> <<>>, posts |-> 0 ]
            /\ pc' = IF client'.client /\ client'.sdk_available
                        THEN "sdk_loop" ELSE "http_loop"
            /\ UNCHANGED <<state, valuation_response, fault>>
    /\ UNCHANGED <<application_data, previous_result, other_run, workflow, nodeset, env>>

\* what one runs.create / runs.wait pair can do
SdkOutcomes ==
    { [kind |-> "exception", output |-> Empty],
      [kind |-> "not_success", output |-> Empty] }
    \cup [ kind : {"success"}, output : RemoteRecords ]

\* one iteration of `for assistant_id in assistant_ids`
SdkAttempt ==
    /\ pc = "sdk_loop"
    /\ \E outcome \in SdkOutcomes :
        IF outcome.kind = "success"
        THEN ReturnValuation(RemoteSuccess(outcome.output))
        ELSE IF call.index < NumAssistantIds
        THEN /\ call' = [call EXCEPT !.index = @ + 1,
                                     !.tried = Append(@, call.index),
                                     !.posts = @ + 1]
             /\ UNCHANGED <<state, pc, valuation_response, fault>>
        ELSE ReturnValuation(AllAssistantsFailed)
    /\ UNCHANGED <<application_data, previous_result, other_run, workflow, nodeset, env, client, visited>>

\* what one requests.post can do: raise, answer 404/405, answer another
\* non-200 status, answer 200 with a body that is not JSON, with a body
\* whose valuation result is empty or no dictionary, or with a dictionary
HttpOutcomes ==
    [ kind : {"exception", "wrong_endpoint", "other_status", "json_error", "no_result"},
      output : {Empty} ]
    \cup [ kind : {"result"}, output : RemoteRecords \ {Empty} ]

\* variant: a failed endpoint is tried again instead of moving on
NextEndpoint_retry ==
    /\ call' = [call EXCEPT !.payload = 1,
                            !.tried = Append(@, call.index),
                            !.posts = @ + 1]
    /\ UNCHANGED <<state, pc, valuation_response, fault>>

NextEndpoint ==
    IF call.index < NumEndpoints
    THEN /\ call' = [call EXCEPT !.index = @ + 1, !.payload = 1,
                                 !.tried = IF call.payload = 1 THEN Append(@, call.index) ELSE @,
                                 !.posts = @ + 1]
         /\ UNCHANGED <<state, pc, valuation_response, fault>>
    ELSE ReturnValuation(AllEndpointsFailed)

NextPayload ==
    IF call.payload < NumPayloads
    THEN /\ call' = [call EXCEPT !.payload = @ + 1,
                                 !.tried = IF call.payload = 1 THEN Append(@, call.index) ELSE @,
                                 !.posts = @ + 1]
         /\ UNCHANGED <<state, pc, valuation_response, fault>>
    ELSE NextEndpoint

\* one requests.post of `for endpoint in endpoints: for payload in payloads`
HttpAttempt ==
    /\ pc = "http_loop"
    /\ \E outcome \in HttpOutcomes :
        IF outcome.kind = "result"
            THEN ReturnValuation(RemoteSuccess(outcome.output))
        ELSE IF outcome.kind \in {"exception", "wrong_endpoint"}
            THEN NextEndpoint
        ELSE NextPayload
    /\ UNCHANGED <<application_data, previous_result, other_run, workflow, nodeset, env, client, visited>>

\* error_handling.py applied to the record of a run whose node raised
HandleNodeError ==
    /\ pc = "raised"
    /\ \E error \in ErrorValues :
        /\ state' = handle_node_error(state, fault.node, error)
        /\ pc' = IF IsCritical(error) THEN "safe" ELSE "handled"
    /\ UNCHANGED <<application_data, previous_result, other_run, workflow, nodeset, env, client, call,
                   valuation_response, fault, visited>>

CreateSafeMortgageDecision ==
    /\ pc \in {"raised", "handled"}
    /\ state' = create_safe_mortgage_decision(state, fault.kind)
    /\ pc' = "safe"
    /\ UNCHANGED <<application_data, previous_result, other_run, workflow, nodeset, env, client, call,
                   valuation_response, fault, visited>>

Next ==
    \/ DataValidation
    \/ CreditAssessment
    \/ IncomeVerification
    \/ PropertyValuation
    \/ SdkAttempt
    \/ HttpAttempt
    \/ RiskAnalysis
    \/ FinalDecision
    \/ HandleNodeError
    \/ CreateSafeMortgageDecision

Spec == Init /\ [][Next]_vars

(***************************************************************************)
(* Credit assessment over the whole score range: the run is started for    *)
(* every integer score and stopped after the credit assessment node.       *)
(***************************************************************************)
MinCreditScore == 0

MaxCreditScore == 900

InitCredit ==
    /\ application_data \in
          { [Reference EXCEPT !.credit_score = score] :
                score \in MinCreditScore..MaxCreditScore }
    /\ state = application_data
    /\ pc = "data_validation"
    /\ workflow \in Workflows
    /\ nodeset \in Nodesets
    /\ env \in RunEnvironments
    /\ client = NoClient
    /\ call = NoCall
    /\ valuation_response = Empty
    /\ fault = NoFault
    /\ visited = <<>>
    /\ previous_result = Empty
    /\ other_run = Empty

NextCredit == DataValidation \/ CreditAssessment

SpecCredit == InitCredit /\ [][NextCredit]_vars

(***************************************************************************)
(* The sequential pipeline with the mock estimator, run twice on the same  *)
(* application: run_mortgage_validation builds a fresh initial state from  *)
(* application_data for every call.                                        *)
(***************************************************************************)
MockEnvironments ==
    { e \in RunEnvironments : MortgagePropertyValuationClient(e, "None", FALSE).use_mock }

InitTwice ==
    /\ application_data \in Applications
    /\ state = application_data
    /\ pc = "data_validation"
    /\ workflow = "sequential"
    /\ nodeset \in Nodesets
    /\ env \in MockEnvironments
    /\ client = NoClient
    /\ call = NoCall
    /\ valuation_response = Empty
    /\ fault = NoFault
    /\ visited = <<>>
    /\ previous_result = Empty
    /\ other_run = Empty

\* variant: the second run starts from a record that shares its errors and
\* warnings lists with the result of the first
RunAgain_shared_lists ==
    /\ pc = "END"
    /\ previous_result = Empty
    /\ previous_result' = state
    /\ state' = [application_data EXCEPT !.errors = state.errors,
                                         !.warnings = state.warnings]
    /\ pc' = "data_validation"
    /\ client' = NoClient
    /\ valuation_response' = Empty
    /\ visited' = <<>>
    /\ UNCHANGED <<application_data, other_run, workflow, nodeset, env, call, fault>>

\* the first run returned its record; run_mortgage_validation is called
\* again with the same application_data
RunAgain ==
    /\ pc = "END"
    /\ previous_result = Empty
    /\ previous_result' = state
    /\ state' = application_data
    /\ pc' = "data_validation"
    /\ client' = NoClient
    /\ valuation_response' = Empty
    /\ visited' = <<>>
    /\ UNCHANGED <<application_data, other_run, workflow, nodeset, env, call, fault>>

NextTwice ==
    \/ DataValidation
    \/ CreditAssessment
    \/ IncomeVerification
    \/ PropertyValuation
    \/ RiskAnalysis
    \/ FinalDecision
    \/ RunAgain

SpecTwice == InitTwice /\ [][NextTwice]_vars

(***************************************************************************)
(* Two runs of one process on different applications, interleaved stage by *)
(* stage.  Each run has its own initial state, client and loop variables   *)
(* (main.py builds the state, the valuation node builds the client); the   *)
(* process switches between the runs at stage boundaries.                  *)
(***************************************************************************)
PairApplications ==
    { StrongApplication, WeakApplication, BorderlineApplication,
      [Reference EXCEPT !.square_footage = MaxSquareFootage, !.property_type = "condo"],
      [Reference EXCEPT !.credit_score = 250],
      [Reference EXCEPT !.annual_income = 0] }

\* the variables of a run that has not started yet
NewRun(a) ==
    [ application_data |-> a, state |-> a, pc |-> "data_validation",
      client |-> NoClient, call |-> NoCall, valuation_response |-> Empty,
      fault |-> NoFault, visited |-> <<>> ]

InitPair ==
    /\ application_data \in PairApplications
    /\ state = application_data
    /\ pc = "data_validation"
    /\ workflow \in Workflows
    /\ nodeset \in Nodesets
    /\ env \in MockEnvironments
    /\ client = NoClient
    /\ call = NoCall
    /\ valuation_response = Empty
    /\ fault = NoFault
    /\ visited = <<>>
    /\ previous_result = Empty
    /\ other_run \in { NewRun(b) : b \in PairApplications \ {application_data} }

\* variant: the warnings list is one object shared by both runs
Switch_shared_warnings ==
    /\ other_run # Empty
    /\ pc \notin {"sdk_loop", "http_loop"}
    /\ application_data' = other_run.application_data
    /\ state' = [other_run.state EXCEPT !.warnings = state.warnings]
    /\ pc' = other_run.pc
    /\ client' = other_run.client
    /\ call' = other_run.call
    /\ valuation_response' = other_run.valuation_response
    /\ fault' = other_run.fault
    /\ visited' = other_run.visited
    /\ other_run' =
        [ application_data |-> application_data, state |-> state, pc |-> pc,
          client |-> client, call |-> call,
          valuation_response |-> valuation_response,
          fault |-> fault, visited |-> visited ]
    /\ UNCHANGED <<workflow, nodeset, env, previous_result>>

\* the process leaves the running run between two stages and resumes the
\* other one: every variable of a run travels with it
Switch ==
    /\ other_run # Empty
    /\ pc \notin {"sdk_loop", "http_loop"}
    /\ application_data' = other_run.application_data
    /\ state' = other_run.state
    /\ pc' = other_run.pc
    /\ client' = other_run.client
    /\ call' = other_run.call
    /\ valuation_response' = other_run.valuation_response
    /\ fault' = other_run.fault
    /\ visited' = other_run.visited
    /\ other_run' =
        [ application_data |-> application_data, state |-> state, pc |-> pc,
          client |-> client, call |-> call,
          valuation_response |-> valuation_response,
          fault |-> fault, visited |-> visited ]
    /\ UNCHANGED <<workflow, nodeset, env, previous_result>>

NextPair ==
    \/ DataValidation
    \/ CreditAssessment
    \/ IncomeVerification
    \/ PropertyValuation
    \/ RiskAnalysis
    \/ FinalDecision
    \/ Switch

SpecPair == InitPair /\ [][NextPair]_vars

\* what the node registered under `node` returns for state s, with the mock
\* estimator as valuation source
NodeResult(ns, node, s) ==
    CASE node = "data_validation" ->
            IF ns = "mock" THEN mock_data_validation_node(s) ELSE data_validation_node(s)
      [] node = "credit_assessment" -> credit_assessment_node(s)
      [] node = "income_verification" -> income_verification_node(s)
      [] node = "property_valuation" ->
            mock_property_valuation_node(s, _mock_property_valuation(PropertyInfo(s)))
      [] node = "risk_analysis" -> risk_analysis_node(s)
      [] node = "decision" ->
            IF ns = "mock" THEN mock_final_decision_node(s) ELSE final_decision_node(s)

\* workflow.invoke: the record a run returns when nothing else runs, or the
\* fault that ends it
RECURSIVE RunFrom(_, _, _, _)
RunFrom(wf, ns, node, s) ==
    IF node = "END" THEN Returned(s)
    ELSE LET result == NodeResult(ns, node, s)
         IN  IF result.ok
             THEN RunFrom(wf, ns, Edge(wf, node, result.state), result.state)
             ELSE result

(***************************************************************************)
(* The mock estimator over every property type and square footage: the     *)
(* sequential pipeline with mock nodes is run up to the property valuation *)
(* node on the reference application with the property described.          *)
(***************************************************************************)
AllPropertyTypes == {"single_family", "condo", "townhouse", "multi_family", "other"}

InitEstimator ==
    /\ application_data \in
          { [Reference EXCEPT !.square_footage = sf, !.property_type = pt] :
                sf \in 0..MaxSquareFootage, pt \in AllPropertyTypes }
    /\ state = application_data
    /\ pc = "data_validation"
    /\ workflow = "sequential"
    /\ nodeset = "mock"
    /\ env \in MockEnvironments
    /\ client = NoClient
    /\ call = NoCall
    /\ valuation_response = Empty
    /\ fault = NoFault
    /\ visited = <<>>
    /\ previous_result = Empty
    /\ other_run = Empty

NextEstimator ==
    \/ DataValidation
    \/ CreditAssessment
    \/ IncomeVerification
    \/ PropertyValuation

SpecEstimator == InitEstimator /\ [][NextEstimator]_vars

(***************************************************************************)
(* The LTV assessment over every ratio and confidence level: a client in   *)
(* mock mode is handed a valuation response and a loan amount, as          *)
(* test_a2a_integration.py does; the estimated value is 100, so that the   *)
(* loan amount is the ratio in percent.                                    *)
(***************************************************************************)
MaxLtvPercent == 120

ConfidenceLevels == {"LOW", "MEDIUM", "HIGH"}

InitLtv ==
    /\ application_data \in
          { [Reference EXCEPT !.loan_amount = loan] : loan \in 0..MaxLtvPercent }
    /\ state = application_data
    /\ pc = "extract_ltv"
    /\ workflow = "sequential"
    /\ nodeset = "mock"
    /\ env \in RunEnvironments
    /\ client = MortgagePropertyValuationClient(env, "True", FALSE)
    /\ call = NoCall
    /\ valuation_response \in
          { RemoteSuccess([ estimated_value |-> 100, confidence_level |-> c,
                            confidence_score |-> 50,
                            valuation_range |-> [min_value |-> 90, max_value |-> 110] ]) :
                c \in ConfidenceLevels }
    /\ fault = NoFault
    /\ visited = <<>>
    /\ previous_result = Empty
    /\ other_run = Empty

\* ltv_info = client.extract_loan_to_value_info(response, loan_amount); the
\* result is kept as ltv_analysis of the valuation result
ExtractLtv ==
    /\ pc = "extract_ltv"
    /\ state' = [state EXCEPT !.property_valuation_result =
                    [ ltv_analysis |->
                        extract_loan_to_value_info(valuation_response, state.loan_amount) ]]
    /\ pc' = "ltv_extracted"
    /\ UNCHANGED <<application_data, previous_result, other_run, workflow, nodeset,
                   env, client, call, valuation_response, fault, visited>>

NextLtv == ExtractLtv

SpecLtv == InitLtv /\ [][NextLtv]_vars

(***************************************************************************)
(* The sequential pipeline with the mock estimator on applications that    *)
(* sit on and next to the thresholds of the stages: credit score 620,      *)
(* payment-to-income ratio 0.28 (loan 140000 on income 30000), loan to     *)
(* value 0.8 (loan 320000 on value 400000), debt-to-income 0.43 and 1 and  *)
(* 2 years of employment.                                                  *)
(***************************************************************************)
ThresholdApplications ==
    { InitialState(cs, ai, ey, la, 400000, 0, dti, 0, "single_family") :
        cs \in {619, 620, 700}, ai \in {-30000, 0, 30000, 95000},
        ey \in {0, 9, 10, 19, 20}, la \in {140000, 140001, 320000, 320001},
        dti \in {43, 44} }

InitThresholds ==
    /\ application_data \in ThresholdApplications
    /\ state = application_data
    /\ pc = "data_validation"
    /\ workflow = "sequential"
    /\ nodeset \in Nodesets
    /\ env \in MockEnvironments
    /\ client = NoClient
    /\ call = NoCall
    /\ valuation_response = Empty
    /\ fault = NoFault
    /\ visited = <<>>
    /\ previous_result = Empty
    /\ other_run = Empty

NextThresholds ==
    \/ DataValidation
    \/ CreditAssessment
    \/ IncomeVerification
    \/ PropertyValuation
    \/ RiskAnalysis
    \/ FinalDecision

SpecThresholds == InitThresholds /\ [][NextThresholds]_vars

(***************************************************************************)
(* The decision node on records whose valuation succeeded with each        *)
(* confidence level: the stages before the decision are applied to the     *)
(* application, the valuation node with a response of the shape that       *)
(* _mock_property_valuation returns, carrying the confidence level of the  *)
(* remote agent and the stated value as estimate, or with the ERROR        *)
(* response of a failed remote call.                                       *)
(***************************************************************************)
LiveEnvironments == RunEnvironments \ MockEnvironments

DecisionApplications ==
    ThresholdApplications
    \cup {StrongApplication, WeakApplication, BorderlineApplication}

DecisionResponses(a) ==
    { [_mock_property_valuation(PropertyInfo(a)) EXCEPT
            !.valuation_data.property_valuation.estimated_value = a.property_value,
            !.valuation_data.property_valuation.confidence_level = c] :
        c \in ConfidenceLevels }
    \cup {AllEndpointsFailed}

\* the record that reaches the decision node of the sequential workflow
\* when the valuation client returned `response`, or the fault of a stage
StagesBeforeDecision(ns, a, response) ==
    LET validated == NodeResult(ns, "data_validation", a)
        assessed == credit_assessment_node(validated.state)
        verified == income_verification_node(assessed.state)
    IN  IF ~verified.ok THEN verified
        ELSE LET valued == mock_property_valuation_node(verified.state, response)
             IN  IF ~valued.ok THEN valued ELSE risk_analysis_node(valued.state)

InitDecision ==
    /\ application_data \in DecisionApplications
    /\ workflow = "sequential"
    /\ nodeset \in Nodesets
    /\ env \in LiveEnvironments
    /\ valuation_response \in DecisionResponses(application_data)
    /\ StagesBeforeDecision(nodeset, application_data, valuation_response).ok
    /\ state = StagesBeforeDecision(nodeset, application_data, valuation_response).state
    /\ pc = "decision"
    /\ client = MortgagePropertyValuationClient(env, "None", FALSE)
    /\ call = NoCall
    /\ fault = NoFault
    /\ visited = <<"data_validation", "credit_assessment", "income_verification",
                   "property_valuation", "risk_analysis">>
    /\ previous_result = Empty
    /\ other_run = Empty

NextDecision == FinalDecision

SpecDecision == InitDecision /\ [][NextDecision]_vars

(***************************************************************************)
(* request_property_valuation on a client that its caller constructed:     *)
(* use_mock is passed or left to the constructor, a URL is passed, found   *)
(* in the environment or absent (test_a2a_integration.py constructs the    *)
(* client with use_mock=True; the valuation node with no argument).        *)
(***************************************************************************)
UseMockArguments == {"None", "True", "False"}

ClientApplications ==
    { Reference,
      [Reference EXCEPT !.square_footage = MaxSquareFootage, !.property_type = "condo"] }

InitClient ==
    /\ application_data \in ClientApplications
    /\ state = application_data
    /\ pc = "request_property_valuation"
    /\ workflow = "sequential"
    /\ nodeset = "mock"
    /\ env \in Environments
    /\ client \in { MortgagePropertyValuationClient(env, use_mock, url_arg) :
                        use_mock \in UseMockArguments, url_arg \in BOOLEAN }
    /\ call = NoCall
    /\ valuation_response = Empty
    /\ fault = NoFault
    /\ visited = <<>>
    /\ previous_result = Empty
    /\ other_run = Empty

\* variant: only use_mock is tested before the remote call
RequestPropertyValuation_no_url_test ==
    /\ pc = "request_property_valuation"
    /\ visited' = Append(visited, "property_valuation")
    /\ IF client.use_mock
       THEN ReturnValuation(_mock_property_valuation(PropertyInfo(state)))
       ELSE /\ call' = [ path |-> IF client.client /\ client.sdk_available
                                     THEN "sdk" ELSE "http",
                         index |-> 1, payload |-> 1, tried |-> <<>>, posts |-> 0 ]
            /\ pc' = IF client.client /\ client.sdk_available
                        THEN "sdk_loop" ELSE "http_loop"
            /\ UNCHANGED <<state, valuation_response, fault>>
    /\ UNCHANGED <<application_data, previous_result, other_run, workflow, nodeset,
                   env, client>>

\* request_property_valuation up to the first remote attempt: the mock
\* estimator when use_mock is set or no URL is known, else the SDK loop or
\* the HTTP loop
RequestPropertyValuation ==
    /\ pc = "request_property_valuation"
    /\ visited' = Append(visited, "property_valuation")
    /\ IF client.use_mock \/ ~client.property_agent_url
       THEN ReturnValuation(_mock_property_valuation(PropertyInfo(state)))
       ELSE /\ call' = [ path |-> IF client.client /\ client.sdk_available
                                     THEN "sdk" ELSE "http",
                         index |-> 1, payload |-> 1, tried |-> <<>>, posts |-> 0 ]
            /\ pc' = IF client.client /\ client.sdk_available
                        THEN "sdk_loop" ELSE "http_loop"
            /\ UNCHANGED <<state, valuation_response, fault>>
    /\ UNCHANGED <<application_data, previous_result, other_run, workflow, nodeset,
                   env, client>>

NextClient ==
    \/ RequestPropertyValuation
    \/ SdkAttempt
    \/ HttpAttempt

SpecClient == InitClient /\ [][NextClient]_vars

(***************************************************************************)
(* Properties.                                                             *)
(***************************************************************************)
Decisions == {"APPROVED", "REJECTED", "PENDING_REVIEW"}

\* the graph reached END, or an error handler put the record in its
\* terminal state
Completed == pc \in {"END", "safe"}

Loops == {"sdk_loop", "http_loop"}

Live == client # NoClient /\ ~client.use_mock /\ client.property_agent_url

\* the application violates one of the four data validation rules
ViolatesRule(a) ==
    \/ a.credit_score < 300
    \/ a.credit_score > 850
    \/ a.annual_income <= 0
    \/ a.loan_amount <= 0
    \/ a.down_payment > a.property_value

\* C1: every run of the sequential pipeline ends with final_decision and
\* decision_reason set, and no fault raised inside a stage leaves the
\* pipeline (also for annual_income = 0 and property_value = 0).
C1_SequentialRunNeverRaises ==
    workflow = "sequential" =>
        /\ pc # "raised"
        /\ pc = "END" => state.final_decision # "" /\ state.decision_reason # ""

\* C2: an application that violates a data validation rule gets status FAIL
\* from data validation and ends the sequential pipeline, without any
\* exception, REJECTED with reason "Failed data validation", confidence 95.
C2_InvalidApplicationRejected ==
    (workflow = "sequential" /\ ViolatesRule(application_data)) =>
        /\ pc # "raised"
        /\ state.data_validation_result # Empty =>
                state.data_validation_result.status = "FAIL"
        /\ pc = "END" =>
                /\ state.final_decision = "REJECTED"
                /\ state.decision_reason = "Failed data validation"
                /\ state.confidence_score = 95

C4_LiveFailureFallsBackToMock ==
    (Live /\ valuation_response # Empty) =>
        /\ valuation_response.status = "SUCCESS"
        /\ \/ valuation_response = _mock_property_valuation(PropertyInfo(application_data))
           \/ \E r \in RemoteRecords : valuation_response = RemoteSuccess(r)

\* C5: every record returned with status SUCCESS carries estimated_value,
\* confidence_level, confidence_score and valuation_range, so the property
\* valuation node never reads a missing field.
C5_SuccessRecordComplete ==
    /\ (valuation_response # Empty /\ valuation_response.status = "SUCCESS") =>
            \A f \in RequiredFields :
                Has(valuation_response.valuation_data.property_valuation, f)
    /\ ~(fault.node = "property_valuation" /\ fault.kind = "KeyError")

\* C6: one call of request_property_valuation tries the candidates in list
\* order, each at most once, goes on only while no usable answer arrived,
\* and ends when the list is exhausted: every remote attempt advances the
\* loop position and the number of attempts is bounded by the list.
Ident(k) == [i \in 1..k |-> i]

C6_LoopInvariant ==
    pc \in Loops =>
        /\ valuation_response = Empty
        /\ call.path = "sdk" =>
                /\ call.index \in 1..NumAssistantIds
                /\ call.tried = Ident(call.index - 1)
                /\ call.posts = call.index - 1
        /\ call.path = "http" =>
                /\ call.index \in 1..NumEndpoints
                /\ call.payload \in 1..NumPayloads
                /\ call.tried = Ident(IF call.payload = 1 THEN call.index - 1 ELSE call.index)
                /\ call.posts <= NumPayloads * (call.index - 1) + call.payload - 1

C6_LoopStep ==
    (pc \in Loops /\ pc' \in Loops) =>
        /\ pc' = pc
        /\ call'.posts = call.posts + 1
        /\ \/ call'.index = call.index + 1
           \/ call'.index = call.index /\ call'.payload = call.payload + 1

C7_ValuationNeverError ==
    /\ state.property_valuation_result # Empty =>
            state.property_valuation_result.status # "ERROR"
    /\ state.decision_reason # "Property valuation failed"

\* C8: a run whose remote valuation attempts all failed still completes
\* with final_decision set, and property_valuation_result carries an
\* appraised value.  Stated for the applications that pass data validation
\* and name a positive property value, whose run meets no other fault.
AllAttemptsFailed == valuation_response \in {AllAssistantsFailed, AllEndpointsFailed}

C8_RunCompletesAfterRemoteFailure ==
    (AllAttemptsFailed /\ ~ViolatesRule(application_data)
        /\ application_data.property_value > 0) =>
        /\ pc # "raised"
        /\ Has(state.property_valuation_result, "appraised_value")
        /\ pc = "END" => state.final_decision \in Decisions

\* C9: data validation sets status FAIL for every record whose down payment
\* exceeds the property value, whatever the other fields are.
C9_DownPaymentFails ==
    (state.data_validation_result # Empty
        /\ application_data.down_payment > application_data.property_value) =>
            state.data_validation_result.status = "FAIL"

\* C10: the grade is A iff s >= 750, B iff 700 <= s <= 749, C iff
\* 650 <= s <= 699, D iff 600 <= s <= 649, F iff s <= 599; the risk level is
\* LOW for A and B, MEDIUM for C, HIGH for D and F; the risk never increases
\* when the score increases.
RiskRank(level) == CASE level = "LOW" -> 0 [] level = "MEDIUM" -> 1 [] level = "HIGH" -> 2

GradeOfBand(score) ==
    CASE score >= 750 -> "A"
      [] score >= 700 /\ score <= 749 -> "B"
      [] score >= 650 /\ score <= 699 -> "C"
      [] score >= 600 /\ score <= 649 -> "D"
      [] score <= 599 -> "F"

RiskOfGrade(grade) ==
    CASE grade \in {"A", "B"} -> "LOW"
      [] grade = "C" -> "MEDIUM"
      [] grade \in {"D", "F"} -> "HIGH"

C10_GradeBands ==
    state.credit_assessment_result # Empty =>
        /\ state.credit_assessment_result.credit_grade = GradeOfBand(state.credit_score)
        /\ state.credit_assessment_result.risk_level =
                RiskOfGrade(state.credit_assessment_result.credit_grade)
        /\ \A lower \in MinCreditScore..state.credit_score :
                RiskRank(risk_level(lower)) >= RiskRank(state.credit_assessment_result.risk_level)

C10_Witness ==
    /\ state.credit_score = 699
    /\ state.credit_assessment_result # Empty
    /\ state.credit_assessment_result.credit_grade = "C"

\* C11: requires_pmi is true exactly when loan_amount > 0.80 x value, with a
\* strict comparison: in the LTV assessment of the valuation client (value =
\* estimated value) and in risk analysis (value = property_value of the
\* record when the stage runs).  At a ratio of exactly 0.80 it is false.
C11_RequiresPmiStrict ==
    /\ Has(state.risk_analysis_result, "requires_pmi") =>
            (state.risk_analysis_result.requires_pmi
                <=> 5 * state.loan_amount > 4 * state.property_value)
    /\ Has(state.property_valuation_result, "valuation_flags") =>
            (state.property_valuation_result.ltv_analysis.ltv_risk_assessment.requires_pmi
                <=> 5 * state.loan_amount > 4 * state.property_valuation_result.appraised_value)

C11_Witness ==
    /\ Has(state.risk_analysis_result, "requires_pmi")
    /\ Has(state.property_valuation_result, "valuation_flags")
    /\ 5 * state.loan_amount = 4 * state.property_valuation_result.appraised_value
    /\ 5 * state.loan_amount = 4 * state.property_value
    /\ ~state.risk_analysis_result.requires_pmi
    /\ ~state.property_valuation_result.ltv_analysis.ltv_risk_assessment.requires_pmi

\* the record passed data validation and carries a successful valuation
PassedAndValued ==
    /\ Has(state.data_validation_result, "status")
    /\ state.data_validation_result.status = "PASS"
    /\ ValuationStatus(state) = "SUCCESS"

Grade == state.credit_assessment_result.credit_grade

Adequacy == state.income_verification_result.income_adequacy

OverallRisk == state.risk_analysis_result.overall_risk

\* C12: for an application that passed data validation and got a successful
\* valuation, the sequential pipeline ends, and ends APPROVED exactly when
\* the credit grade is A or B, income_adequacy is SUFFICIENT and overall_risk
\* is LOW or MEDIUM; the strong reference application ends APPROVED.
C12_ApprovedIffStrong ==
    (workflow = "sequential" /\ PassedAndValued) =>
        /\ pc # "raised"
        /\ pc = "END" =>
            /\ state.final_decision = "APPROVED"
                <=> /\ Grade \in {"A", "B"}
                    /\ Adequacy = "SUFFICIENT"
                    /\ OverallRisk \in {"LOW", "MEDIUM"}
            /\ application_data = StrongApplication => state.final_decision = "APPROVED"

C12_Witness ==
    /\ pc = "END"
    /\ workflow = "sequential"
    /\ application_data = StrongApplication
    /\ PassedAndValued
    /\ state.final_decision = "APPROVED"

\* C13: for an application that passed data validation and got a successful
\* valuation, the sequential pipeline ends REJECTED with confidence 80
\* exactly when the credit grade is D or F, or income_adequacy is
\* INSUFFICIENT, or overall_risk is HIGH; every such application with a
\* credit score below 650, and the weak reference application, is REJECTED.
C13_RejectedIffWeak ==
    (workflow = "sequential" /\ PassedAndValued /\ pc = "END") =>
        /\ (state.final_decision = "REJECTED" /\ state.confidence_score = 80)
            <=> \/ Grade \in {"D", "F"}
                \/ Adequacy = "INSUFFICIENT"
                \/ OverallRisk = "HIGH"
        /\ application_data.credit_score < 650 => state.final_decision = "REJECTED"
        /\ application_data = WeakApplication => state.final_decision = "REJECTED"

C13_Witness ==
    /\ pc = "END"
    /\ workflow = "sequential"
    /\ application_data = WeakApplication
    /\ PassedAndValued
    /\ state.final_decision = "REJECTED"
    /\ state.confidence_score = 80

\* C14: for an application that passed data validation and got a successful
\* valuation, the decision is PENDING_REVIEW with confidence 60 exactly when
\* the credit grade is C, income_adequacy is SUFFICIENT and overall_risk is
\* LOW or MEDIUM; no run with grade A, B, D or F ends PENDING_REVIEW.
C14_PendingIffBorderline ==
    /\ (PassedAndValued /\ pc = "END") =>
        ((state.final_decision = "PENDING_REVIEW" /\ state.confidence_score = 60)
            <=> /\ Grade = "C"
                /\ Adequacy = "SUFFICIENT"
                /\ OverallRisk \in {"LOW", "MEDIUM"})
    /\ (Completed /\ Has(state.credit_assessment_result, "credit_grade")
            /\ Grade \in {"A", "B", "D", "F"}) =>
        state.final_decision # "PENDING_REVIEW"

C14_Witness ==
    /\ pc = "END"
    /\ application_data = BorderlineApplication
    /\ PassedAndValued
    /\ state.final_decision = "PENDING_REVIEW"
    /\ state.confidence_score = 60

Stages ==
    << "data_validation", "credit_assessment", "income_verification",
       "property_valuation", "risk_analysis", "decision" >>

IsPrefix(p, q) == Len(p) <= Len(q) /\ SubSeq(q, 1, Len(p)) = p

\* C15: in the sequential workflow every run executes the six stages once
\* each, in the order data_validation, credit_assessment,
\* income_verification, property_valuation, risk_analysis, decision, and
\* then ends, whatever the stage results are.
C15_SequentialRunsAllStages ==
    workflow = "sequential" =>
        /\ IsPrefix(visited, Stages)
        /\ pc # "raised"
        /\ pc = "END" => visited = Stages

\* a short-circuit condition of the conditional workflow holds
ShortCircuit ==
    \/ /\ Has(state.data_validation_result, "status")
       /\ state.data_validation_result.status = "FAIL"
    \/ /\ Has(state.credit_assessment_result, "credit_grade")
       /\ state.credit_assessment_result.credit_grade = "F"
    \/ ValuationStatus(state) = "ERROR"

\* the stages entered by a short-circuited run: those up to the stage whose
\* result short-circuits, then the decision
ShortCircuitPath ==
    IF state.data_validation_result.status = "FAIL"
        THEN <<"data_validation", "decision">>
    ELSE IF state.credit_assessment_result.credit_grade = "F"
        THEN <<"data_validation", "credit_assessment", "decision">>
    ELSE <<"data_validation", "credit_assessment", "income_verification",
           "property_valuation", "decision">>

\* C16: in the conditional workflow every short-circuit (data validation
\* FAIL, credit grade F, property valuation ERROR) routes directly to the
\* decision stage, no skipped stage is executed, and the run then ends with
\* final_decision = REJECTED.
C16_ShortCircuitEndsRejected ==
    (workflow = "conditional" /\ ShortCircuit) =>
        /\ IsPrefix(visited, ShortCircuitPath)
        /\ pc \in {"decision", "END"}
        /\ pc = "END" => state.final_decision = "REJECTED"

DecisionFields(s) == <<s.final_decision, s.decision_reason, s.confidence_score>>

Undecided == <<"", "", 0>>

\* C17: final_decision is written exactly once in a run: the three decision
\* fields stay unset until the decision stage or an error handler runs, no
\* other stage writes them, and once written they are not written again.
C17_DecisionUnsetBefore ==
    /\ ~Completed => DecisionFields(state) = Undecided
    /\ Completed => state.final_decision \in Decisions

C17_DecisionStep ==
    DecisionFields(state') # DecisionFields(state) =>
        /\ pc \in {"decision", "raised", "handled"}
        /\ DecisionFields(state) = Undecided
        /\ pc' \in {"END", "safe"}

ResultFields ==
    { "data_validation_result", "credit_assessment_result",
      "income_verification_result", "property_valuation_result",
      "risk_analysis_result" }

\* C18: once a stage has written its result sub-record, no later stage and
\* no error handler removes or changes it for the rest of the run.
C18_ResultStep ==
    \A f \in ResultFields : state[f] # Empty => state'[f] = state[f]

C18_ResultsKept == [][C18_ResultStep]_vars

C18_Witness ==
    /\ pc = "safe"
    /\ Has(state.data_validation_result, "issues")
    /\ Has(state.credit_assessment_result, "credit_grade")
    /\ state.risk_analysis_result = NotCompleted

\* C19: when data validation has status FAIL or property valuation has
\* status ERROR, the errors list of the record has at least one entry once
\* that stage completed; an issue that does not fail a stage (a
\* debt-to-income ratio above 0.5) is in the warnings list of the record.
C19_FailureRecordsError ==
    /\ (Has(state.data_validation_result, "status")
            /\ state.data_validation_result.status = "FAIL") =>
        Len(state.errors) >= 1
    /\ ValuationStatus(state) = "ERROR" => Len(state.errors) >= 1
    /\ (Has(state.data_validation_result, "status")
            /\ state.debt_to_income_ratio > 50) =>
        \E i \in 1..Len(state.warnings) : state.warnings[i] = "High debt-to-income ratio"

C23_SafeDecisionStep ==
    CreateSafeMortgageDecision =>
        /\ state'.final_decision = "REJECTED"
        /\ state'.confidence_score = 0
        /\ state'.decision_reason =
                "Application rejected due to system error: " \o fault.kind
        /\ state'.current_step = "final_decision_completed"
        /\ \A f \in ResultFields :
            /\ state'[f] # Empty
            /\ state[f] = Empty => state'[f].status = "NOT_COMPLETED"
            /\ state[f] # Empty => state'[f] = state[f]

C23_SafeDecision == [][C23_SafeDecisionStep]_vars

C23_Witness ==
    /\ pc = "safe"
    /\ state.errors = <<>>
    /\ state.decision_reason = "Application rejected due to system error: ZeroDivisionError"
    /\ Has(state.income_verification_result, "income_adequacy")
    /\ state.property_valuation_result = NotCompleted
    /\ state.risk_analysis_result = NotCompleted

\* C24: a failure of any kind passed to handle_node_error appends exactly
\* one entry to the errors list, keeps the earlier entries, and leaves the
\* record in the safe terminal state final_decision = REJECTED with
\* confidence_score = 0.
C24_HandlerStep ==
    HandleNodeError =>
        /\ Len(state'.errors) = Len(state.errors) + 1
        /\ SubSeq(state'.errors, 1, Len(state.errors)) = state.errors
        /\ state'.final_decision = "REJECTED"
        /\ state'.confidence_score = 0

C24_HandlerRejects == [][C24_HandlerStep]_vars

\* C25: a record that passed data validation runs through the later stages
\* of the sequential pipeline without a division by zero: none in income
\* verification, in the variance computation, in the LTV computation of the
\* valuation client, or in risk analysis (property_value = 0 included).
C25_NoArithmeticFaultAfterPass ==
    (workflow = "sequential"
        /\ Has(state.data_validation_result, "status")
        /\ state.data_validation_result.status = "PASS") =>
        fault.kind # "ZeroDivisionError"

\* the issues that the four rules give for application a, in rule order
ExpectedIssues(a) ==
    (IF a.credit_score < 300 \/ a.credit_score > 850
        THEN <<"Invalid credit score">> ELSE <<>>)
    \o (IF a.annual_income <= 0 THEN <<"Invalid annual income">> ELSE <<>>)
    \o (IF a.loan_amount <= 0 THEN <<"Invalid loan amount">> ELSE <<>>)
    \o (IF a.down_payment > a.property_value
        THEN <<"Down payment exceeds property value">> ELSE <<>>)

\* C26: data validation checks the four rules independently: issues holds
\* exactly one entry per violated rule, status is FAIL if and only if issues
\* is non-empty, and a debt-to-income ratio above 0.5 only adds the warning
\* "High debt-to-income ratio" and never changes status.
C26_ValidationRulesIndependent ==
    Has(state.data_validation_result, "status") =>
        /\ state.data_validation_result.issues = ExpectedIssues(application_data)
        /\ state.data_validation_result.status = "FAIL"
                <=> state.data_validation_result.issues # <<>>
        /\ state.data_validation_result.warnings =
                IF application_data.debt_to_income_ratio > 50
                THEN <<"High debt-to-income ratio">> ELSE <<>>

\* C27: after a successful valuation property_value equals the appraised
\* value before risk analysis runs, so loan_to_value_ratio,
\* down_payment_percent, the LTV risk factor and requires_pmi of risk
\* analysis are computed from the appraised value; after a valuation ERROR
\* property_value keeps the stated value.
C27_RiskUsesAppraisedValue ==
    /\ ValuationStatus(state) = "SUCCESS" =>
            state.property_value = state.property_valuation_result.appraised_value
    /\ ValuationStatus(state) = "ERROR" =>
            state.property_value = application_data.property_value
    /\ (ValuationStatus(state) = "SUCCESS" /\ Has(state.risk_analysis_result, "overall_risk")) =>
        LET appraised == state.property_valuation_result.appraised_value
            risk == state.risk_analysis_result
        IN  /\ risk.loan_to_value_ratio = Ratio(state.loan_amount, appraised)
            /\ risk.down_payment_percent = Ratio(state.down_payment, appraised)
            /\ risk.requires_pmi <=> 5 * state.loan_amount > 4 * appraised
            /\ (\E i \in 1..Len(risk.risk_factors) :
                    risk.risk_factors[i] = "High loan-to-value ratio (>80%)")
                <=> 5 * state.loan_amount > 4 * appraised

C27_Witness ==
    /\ ValuationStatus(state) = "SUCCESS"
    /\ Has(state.risk_analysis_result, "overall_risk")
    /\ 5 * state.loan_amount > 4 * application_data.property_value
    /\ ~state.risk_analysis_result.requires_pmi
    /\ state.property_value # application_data.property_value

\* C28: the property valuation stage appends exactly one variance warning
\* if and only if the valuation succeeded and |appraised - stated| is
\* strictly more than 10% of the stated value; at exactly 10% or below, and
\* on valuation ERROR, the warnings list is unchanged.
C28_VarianceStep ==
    (state.property_valuation_result = Empty
        /\ Has(state'.property_valuation_result, "appraised_value")) =>
        LET appraised == state'.property_valuation_result.appraised_value
            stated == state.property_value
        IN  IF /\ state'.property_valuation_result.status = "SUCCESS"
               /\ 10 * Abs(appraised - stated) > stated
            THEN state'.warnings =
                    Append(state.warnings,
                           "Significant variance between stated and appraised values")
            ELSE state'.warnings = state.warnings

C28_VarianceWarning == [][C28_VarianceStep]_vars

C28_Witness ==
    /\ ValuationStatus(state) = "SUCCESS"
    /\ 10 * Abs(state.property_valuation_result.appraised_value
                    - application_data.property_value)
            = application_data.property_value
    /\ state.warnings = <<>>

\* an LTV assessment was computed
LtvAssessed ==
    /\ Has(state.property_valuation_result, "ltv_analysis")
    /\ state.property_valuation_result.ltv_analysis.ltv_available

LtvAnalysis == state.property_valuation_result.ltv_analysis

\* C29: the LTV risk assessor gives HIGH for ltv > 0.95; for
\* 0.80 < ltv <= 0.95 MEDIUM when the confidence is HIGH, otherwise HIGH; for
\* ltv <= 0.80 MEDIUM when the confidence is LOW, otherwise LOW; a LOW
\* confidence adds the factor "Low confidence property valuation" and never
\* lowers a level.
C29_LtvRiskTable ==
    LtvAssessed =>
        LET loan == LtvAnalysis.loan_amount
            value == LtvAnalysis.estimated_property_value
            confidence == LtvAnalysis.confidence_level
            assessment == LtvAnalysis.ltv_risk_assessment
        IN  /\ assessment.risk_level =
                IF 100 * loan > 95 * value THEN "HIGH"
                ELSE IF 100 * loan > 80 * value
                    THEN IF confidence = "HIGH" THEN "MEDIUM" ELSE "HIGH"
                ELSE IF confidence = "LOW" THEN "MEDIUM" ELSE "LOW"
            /\ confidence = "LOW"
                <=> \E i \in 1..Len(assessment.risk_factors) :
                        assessment.risk_factors[i] = "Low confidence property valuation"
            /\ confidence = "LOW" => assessment.risk_level # "LOW"

C29_Witness ==
    /\ LtvAssessed
    /\ LtvAnalysis.ltv_ratio = Ratio(80, 100)
    /\ LtvAnalysis.confidence_level = "LOW"
    /\ LtvAnalysis.ltv_risk_assessment.risk_level = "MEDIUM"
    /\ LtvAnalysis.ltv_risk_assessment.risk_factors = <<"Medium LTV with low confidence valuation", "Low confidence property valuation">>

\* C30: recommended_action is REJECT exactly when ltv > 0.95, REQUIRE_PMI
\* exactly when 0.80 < ltv <= 0.95 with HIGH confidence,
\* REQUIRE_ADDITIONAL_REVIEW exactly when 0.80 < ltv <= 0.95 with another
\* confidence, APPROVE_WITH_CONDITIONS exactly when ltv <= 0.80 with LOW
\* confidence, APPROVE exactly when ltv <= 0.80 with another confidence;
\* APPROVE and APPROVE_WITH_CONDITIONS never come with requires_pmi.
C30_LtvRecommendationTable ==
    LtvAssessed =>
        LET loan == LtvAnalysis.loan_amount
            value == LtvAnalysis.estimated_property_value
            confidence == LtvAnalysis.confidence_level
            assessment == LtvAnalysis.ltv_risk_assessment
        IN  /\ assessment.recommended_action =
                IF 100 * loan > 95 * value THEN "REJECT"
                ELSE IF 100 * loan > 80 * value
                    THEN IF confidence = "HIGH" THEN "REQUIRE_PMI"
                         ELSE "REQUIRE_ADDITIONAL_REVIEW"
                ELSE IF confidence = "LOW" THEN "APPROVE_WITH_CONDITIONS"
                ELSE "APPROVE"
            /\ assessment.recommended_action \in {"APPROVE", "APPROVE_WITH_CONDITIONS"}
                => ~assessment.requires_pmi

C30_Witness ==
    /\ LtvAssessed
    /\ LtvAnalysis.ltv_ratio = Ratio(81, 100)
    /\ LtvAnalysis.confidence_level = "HIGH"
    /\ LtvAnalysis.ltv_risk_assessment.recommended_action = "REQUIRE_PMI"
    /\ LtvAnalysis.ltv_risk_assessment.requires_pmi

(***************************************************************************)
(* C31: risk analysis tests LTV > 0.8, DTI > 0.43 and credit score < 620   *)
(* independently, records one factor for each test that holds, and sets    *)
(* overall_risk to LOW for no factor, MEDIUM for exactly one and HIGH for  *)
(* two or three; a grade A or B applicant is HIGH only when both the LTV   *)
(* and the DTI test hold.                                                  *)
(***************************************************************************)
RiskAnalysed == Has(state.risk_analysis_result, "overall_risk")

Contains(seq, x) == \E i \in DOMAIN seq : seq[i] = x

C31_RiskFactorsCounted ==
    RiskAnalysed =>
        LET r == state.risk_analysis_result
            high_ltv == 5 * state.loan_amount > 4 * state.property_value
            high_dti == state.debt_to_income_ratio > 43
            low_score == state.credit_score < 620
            n == (IF high_ltv THEN 1 ELSE 0) + (IF high_dti THEN 1 ELSE 0)
                    + (IF low_score THEN 1 ELSE 0)
        IN  /\ Len(r.risk_factors) = n
            /\ high_ltv <=> Contains(r.risk_factors, "High loan-to-value ratio (>80%)")
            /\ high_dti <=> Contains(r.risk_factors, "High debt-to-income ratio (>43%)")
            /\ low_score <=> Contains(r.risk_factors, "Low credit score (<620)")
            /\ r.overall_risk = (IF n = 0 THEN "LOW" ELSE IF n = 1 THEN "MEDIUM" ELSE "HIGH")
            /\ (/\ state.credit_assessment_result.credit_grade \in {"A", "B"}
                /\ r.overall_risk = "HIGH") => (high_ltv /\ high_dti)

\* a grade B applicant at HIGH risk through the LTV and the DTI factor
C31_Witness ==
    /\ RiskAnalysed
    /\ state.credit_assessment_result.credit_grade = "B"
    /\ state.risk_analysis_result.overall_risk = "HIGH"
    /\ Len(state.risk_analysis_result.risk_factors) = 2

(***************************************************************************)
(* C32: income verification sets income_adequacy to SUFFICIENT exactly     *)
(* when loan_amount * 0.005 <= 0.28 * (annual_income / 12), that is when   *)
(* 3 * loan_amount <= 14 * annual_income; it records the ratio concern     *)
(* exactly when the result is INSUFFICIENT and the employment concern      *)
(* exactly when employment_years < 2.                                      *)
(***************************************************************************)
IncomeVerificationRan == Contains(visited, "income_verification")

C32_IncomeAdequacyRule ==
    IncomeVerificationRan =>
        LET r == state.income_verification_result
        IN  /\ Has(r, "income_adequacy")
            /\ r.income_adequacy =
                    (IF 3 * state.loan_amount <= 14 * state.annual_income
                        THEN "SUFFICIENT" ELSE "INSUFFICIENT")
            /\ Contains(r.concerns, "Payment-to-income ratio exceeds 28%")
                    <=> r.income_adequacy = "INSUFFICIENT"
            /\ Contains(r.concerns, "Employment history less than 2 years")
                    <=> state.employment_years < 20

(***************************************************************************)
(* C33: an APPROVED decision has confidence 85 at LOW overall risk and 75  *)
(* at MEDIUM, plus 5 when the valuation succeeded with confidence level    *)
(* HIGH, minus 10 when it succeeded with LOW, and unchanged otherwise; no  *)
(* other decision is adjusted (it keeps the confidence of its rule), and   *)
(* the score stays within 0..100.                                          *)
(***************************************************************************)
Decided == pc = "END" /\ state.final_decision \in Decisions

ConfidenceAdjustment(valuation) ==
    IF Has(valuation, "status") /\ valuation.status = "SUCCESS"
    THEN IF valuation.confidence_level = "HIGH" THEN 5
         ELSE IF valuation.confidence_level = "LOW" THEN -10
         ELSE 0
    ELSE 0

C34_MockStep ==
    (pc = "request_property_valuation"
        /\ (client.use_mock \/ ~client.property_agent_url)) =>
        /\ valuation_response' = _mock_property_valuation(PropertyInfo(state))
        /\ valuation_response'.status = "SUCCESS"
        /\ pc' \notin Loops
        /\ call' = NoCall

C34_RemoteOnlyWhenLive ==
    (pc \in Loops \/ call # NoCall) => (~client.use_mock /\ client.property_agent_url)

C34_ModeSelection == [][C34_MockStep]_vars /\ []C34_RemoteOnlyWhenLive

\* a client told not to mock, without any URL, answered with the mock record
C34_Witness ==
    /\ ~client.use_mock
    /\ ~client.property_agent_url
    /\ valuation_response = _mock_property_valuation(PropertyInfo(application_data))
    /\ pc \notin Loops

(***************************************************************************)
(* C35: for every application the conditional and the sequential workflow  *)
(* reach the same final_decision, decision_reason and confidence_score     *)
(* (compared with the mock estimator as valuation source, which answers    *)
(* both runs alike).                                                       *)
(***************************************************************************)
OtherWorkflow == IF workflow = "sequential" THEN "conditional" ELSE "sequential"

RunEnded == pc \in {"END", "raised"}

C35_WorkflowsAgree ==
    (RunEnded /\ env \in MockEnvironments) =>
        LET other == RunFrom(OtherWorkflow, nodeset, "data_validation", application_data)
        IN  /\ pc = "END"
            /\ other.ok
            /\ DecisionFields(state) = DecisionFields(other.state)

(***************************************************************************)
(* C36: the employment_stability of income_verification_result equals the  *)
(* employment_stability of credit_assessment_result for every value of     *)
(* employment_years: STABLE from 2 years, MODERATE from 1 year and below   *)
(* 2, UNSTABLE below 1 year.                                               *)
(***************************************************************************)
StatedStability(years) ==
    IF years >= 20 THEN "STABLE" ELSE IF years >= 10 THEN "MODERATE" ELSE "UNSTABLE"

C36_EmploymentStabilityAgrees ==
    Has(state.income_verification_result, "employment_stability") =>
        /\ state.credit_assessment_result.employment_stability
                = StatedStability(state.employment_years)
        /\ state.income_verification_result.employment_stability
                = state.credit_assessment_result.employment_stability

(***************************************************************************)
(* C37: after a successful valuation, the loan_to_value_ratio and          *)
(* requires_pmi that risk analysis records equal the ltv_ratio and         *)
(* requires_pmi of property_valuation_result.ltv_analysis.                 *)
(***************************************************************************)
C37_StagesAgreeOnLtv ==
    (RiskAnalysed /\ ValuationStatus(state) = "SUCCESS") =>
        LET risk == state.risk_analysis_result
            ltv == state.property_valuation_result.ltv_analysis
        IN  /\ ltv.ltv_available
            /\ risk.loan_to_value_ratio = ltv.ltv_ratio
            /\ risk.requires_pmi = ltv.ltv_risk_assessment.requires_pmi

\* the appraisal differs from the stated value and both stages ask for
\* mortgage insurance
C37_Witness ==
    /\ RiskAnalysed
    /\ ValuationStatus(state) = "SUCCESS"
    /\ application_data.property_value # state.property_valuation_result.appraised_value
    /\ state.risk_analysis_result.requires_pmi
    /\ state.property_valuation_result.ltv_analysis.ltv_risk_assessment.requires_pmi

(***************************************************************************)
(* C38: no stage modifies the input fields credit_score, annual_income,    *)
(* employment_years, loan_amount, down_payment and debt_to_income_ratio    *)
(* (nor the property description); the only input field ever rewritten is  *)
(* property_value, and only by the property valuation stage when the       *)
(* valuation succeeded, which stores the appraised value.                  *)
(***************************************************************************)
FrozenInputs ==
    {"credit_score", "annual_income", "employment_years", "loan_amount",
     "down_payment", "debt_to_income_ratio", "square_footage", "property_type"}

C38_InputsKept == \A f \in FrozenInputs : state[f] = application_data[f]

C38_PropertyValueStep ==
    state'.property_value # state.property_value =>
        /\ pc \in {"property_valuation"} \cup Loops
        /\ ValuationStatus(state) = "None"
        /\ ValuationStatus(state') = "SUCCESS"
        /\ state'.property_value = state'.property_valuation_result.appraised_value

C38_OnlyPropertyValueRewritten == []C38_InputsKept /\ [][C38_PropertyValueStep]_vars

\* a run whose stated property value was replaced by the appraisal
C38_Witness ==
    /\ pc = "END"
    /\ state.property_value # application_data.property_value
    /\ ValuationStatus(state) = "SUCCESS"

(***************************************************************************)
(* C39: the risk level of the LTV risk assessor is monotone (LOW < MEDIUM  *)
(* < HIGH): for a fixed confidence level it never decreases as ltv_ratio   *)
(* increases, and for a fixed ltv_ratio it never decreases as the          *)
(* confidence goes from HIGH to MEDIUM to LOW.                             *)
(***************************************************************************)
\* HIGH confidence first, LOW confidence last
DoubtRank(confidence) ==
    CASE confidence = "HIGH" -> 0 [] confidence = "MEDIUM" -> 1 [] confidence = "LOW" -> 2

C39_LtvRiskMonotone ==
    LtvAssessed =>
        LET percent == LtvAnalysis.loan_amount
            confidence == LtvAnalysis.confidence_level
            level == LtvAnalysis.ltv_risk_assessment.risk_level
        IN  /\ LtvAnalysis.estimated_property_value = 100
            /\ \A lower \in 0..percent :
                    RiskRank(_assess_ltv_risk(Ratio(lower, 100), confidence).risk_level)
                        <= RiskRank(level)
            /\ \A surer \in ConfidenceLevels :
                    DoubtRank(surer) <= DoubtRank(confidence) =>
                        RiskRank(_assess_ltv_risk(Ratio(percent, 100), surer).risk_level)
                            <= RiskRank(level)

\* a ratio between 0.80 and 0.95 assessed at MEDIUM confidence: HIGH, above
\* the MEDIUM of a HIGH confidence and the LOW of a ratio of 0.80
C39_Witness ==
    /\ LtvAssessed
    /\ LtvAnalysis.ltv_ratio = Ratio(81, 100)
    /\ LtvAnalysis.confidence_level = "MEDIUM"
    /\ LtvAnalysis.ltv_risk_assessment.risk_level = "HIGH"

====
